---- MODULE Spec2Model ----
(***************************************************************************)
(* State-machine model of the cuDNN|Scope benchmark entry points.          *)
(*                                                                         *)
(* One run of one benchmark function is modelled: the framework hands the  *)
(* function a benchmark::State (argument vector, iteration loop, counters, *)
(* SkipWithError, SetItemsProcessed); the function makes vendor calls       *)
(* whose status is chosen by the environment.  The program counter pc      *)
(* walks the function's statements; ip indexes its set-up statements.      *)
(***************************************************************************)
EXTENDS Integers, Sequences, FiniteSets, TLC

\* ------------------------------------------------------------------ bounds
MaxDim      == 2   \* filter extents / matrix extents are drawn from 1..MaxDim
MaxGroup    == 2   \* argument 13 (group) is drawn from 0..MaxGroup
MaxIters    == 2   \* iterations the framework asks of the timed loop
MaxReturned == 2   \* entries the algorithm search may report

\* -------------------------------------------------------- program constants
kFallbackWorkspaceBytes == 1073741824

\* --------------------------------------------------------------- vocabulary
Benches ==
  { "SCALE_TENSOR", "CONV_FWD", "CONV_BIAS_ACTIVATION_FWD", "CONV_BWD_DATA",
    "CONV_BWD_BIAS", "POOLING_BWD", "GEMM_FWD", "ACTIVATION_BWD",
    "BATCHNORM_FWD", "DROPOUT_FWD" }

ConvBenches == { "CONV_FWD", "CONV_BIAS_ACTIVATION_FWD", "CONV_BWD_DATA" }

Types == { "int8_t", "__half", "float" }

FwdAlgos ==
  { "IMPLICIT_GEMM", "IMPLICIT_PRECOMP_GEMM", "GEMM", "FFT", "WINOGRAD" }

BwdDataAlgos == { "ALGO_0", "ALGO_1", "FFT", "WINOGRAD" }

ActivationModes ==
  { "IDENTITY", "SIGMOID", "RELU", "TANH", "CLIPPED_RELU", "ELU", "OTHER" }

NoAlgo == "NONE"

VARIABLES
  bench,        \* the benchmark function being run
  T,            \* template parameter: element type
  alg,          \* template parameter: convolution_algorithm / activation_mode
  math_type0,   \* template parameter: requested math type
  args,         \* state.range(i), i = 0..13
  has_cuda,     \* global set at start-up
  tensorCore,   \* detail::SupportsTensorCore(cuda_device_id)
  pc,           \* position in the function
  ip,           \* index of the next set-up statement
  math_type,    \* local: math type applied to the convolution descriptor
  valid,        \* helper objects constructed so far -> is_valid
  out,          \* out_n, out_c, out_h, out_w
  advised,      \* advised_convolution_algorithm (NoAlgo is -1)
  workspace_bytes,
  invoked,      \* vendor calls made so far in this run
  failed,       \* vendor calls that returned an error status
  callArgs,     \* arguments of the latest invocation of a vendor call
  skips,        \* number of state.SkipWithError calls
  counters,     \* state.counters
  items,        \* values passed to state.SetItemsProcessed
  iterations,   \* iterations of the timed loop entered
  events,       \* events of the current iteration of the timed loop
  timedCalls,   \* invocations of the timed vendor call
  cudnn_err,    \* local of the loop body: the timed call returned an error
  cuda_err,     \* local of the loop body: cudaEventSynchronize returned an error
  errIter,      \* iteration in which a vendor call of the loop first failed (0: none)
  loopErr,      \* the loop was left through break
  paused,       \* state.PauseTiming called and not yet resumed
  deferred,     \* clean-up calls registered with defer(...)
  released      \* clean-up calls executed at return

paramVars == << bench, T, alg, math_type0, args, has_cuda, tensorCore >>
convVars  == << math_type, out, advised, workspace_bytes >>
callVars  == << invoked, failed, callArgs >>
loopVars  == << iterations, events, timedCalls, cudnn_err, cuda_err, errIter,
               loopErr, paused >>
deferVars == << deferred, released >>
reportVars == << counters, items >>

vars == << paramVars, convVars, callVars, loopVars, deferVars, reportVars,
           pc, ip, valid, skips >>

\* ------------------------------------------------------------- small helpers
RECURSIVE Gcd(_, _)
Gcd(a, b) == IF b = 0 THEN a ELSE Gcd(b, a % b)

Abs(x) == IF x < 0 THEN -x ELSE x

RECURSIVE Reverse(_)
Reverse(s) == IF s = << >> THEN << >> ELSE Reverse(Tail(s)) \o << Head(s) >>

\* A double-valued FLOP estimate (num + logcoef * log2(logarg)) / den, kept
\* exact; logcoef is 0 for the estimates that have no logarithmic term.
Flops(num, logcoef, logarg, den) ==
  LET g == Gcd(Gcd(Abs(num), Abs(logcoef)), Abs(den))
      d == IF g = 0 THEN 1 ELSE g
  IN  [ num |-> num \div d, logcoef |-> logcoef \div d,
        logarg |-> IF logcoef = 0 THEN 1 ELSE logarg, den |-> den \div d ]

Exact(n) == Flops(n, 0, 1, 1)

DivFlops(f, g) == Flops(f.num, f.logcoef, f.logarg, f.den * g)

\* std::map::insert keeps the value of a key that is already present.
Insert(m, new) ==
  [ k \in DOMAIN m \cup DOMAIN new |-> IF k \in DOMAIN m THEN m[k] ELSE new[k] ]

\* ------------------------------------------------------------ argument sets
Vec(n, c, h, w, k, a5, a6, a7, a8, a9, a10, a11, a12, a13) ==
  [ i \in 0..13 |->
      CASE i = 0 -> n  [] i = 1 -> c  [] i = 2 -> h   [] i = 3 -> w
        [] i = 4 -> k  [] i = 5 -> a5 [] i = 6 -> a6  [] i = 7 -> a7
        [] i = 8 -> a8 [] i = 9 -> a9 [] i = 10 -> a10 [] i = 11 -> a11
        [] i = 12 -> a12 [] OTHER -> a13 ]

\* Convolution problems: n, c, h, w, k, then filter, pad and stride extents,
\* dilation and group.
ConvProblems ==
  { Vec(2, 2, 4, 5, 2, f5, f6, 0, 1, 1, 2, 1, 1, g) :
      f5 \in 1..MaxDim, f6 \in 1..MaxDim, g \in 0..MaxGroup }

\* Matrix problems: M, N, K, transA, transB, alpha, beta.
GemmProblems ==
  { Vec(m, n, k, ta, tb, 1, 0, 0, 0, 0, 0, 0, 0, 0) :
      m \in 1..MaxDim, n \in 1..MaxDim, k \in 1..MaxDim,
      ta \in {0, 1}, tb \in {0, 1} }

\* Tensor problems: n, c, h, w (h or w may be given as -1), then window,
\* padding and stride extents.
TensorProblems ==
  { Vec(n, 2, h, w, 2, 2, 0, 0, 1, 1, 1, 1, 1, 0) :
      n \in 1..MaxDim, h \in {-1, 4}, w \in {-1, 3} }

ProblemsOf(b) ==
  IF b \in ConvBenches \cup {"CONV_BWD_BIAS"} THEN ConvProblems
  ELSE IF b = "GEMM_FWD" THEN GemmProblems
  ELSE TensorProblems

\* The element types the model instantiates each function with.
TypesOf(b) ==
  IF b \in ConvBenches THEN Types
  ELSE IF b = "GEMM_FWD" THEN {"__half", "float"}
  ELSE {"float"}

AlgosOf(b) ==
  IF b = "CONV_FWD" THEN FwdAlgos
  ELSE IF b = "CONV_BIAS_ACTIVATION_FWD" THEN {"IMPLICIT_GEMM", "FFT"}
  ELSE IF b = "CONV_BWD_DATA" THEN BwdDataAlgos
  ELSE IF b = "ACTIVATION_BWD" THEN ActivationModes
  ELSE {NoAlgo}

\* The math types the template parameter math_type0 may request: the
\* default, and tensor-op math for the floating-point element types.
MathTypesOf(b, t) ==
  IF b \in ConvBenches /\ t \in {"__half", "float"}
  THEN {"DEFAULT", "TENSOR_OP"}
  ELSE {"DEFAULT"}

Init ==
  /\ bench \in Benches
  /\ T \in TypesOf(bench)
  /\ alg \in AlgosOf(bench)
  /\ math_type0 \in MathTypesOf(bench, T)
  /\ args \in ProblemsOf(bench)
  /\ has_cuda \in BOOLEAN
  /\ tensorCore \in IF bench \in ConvBenches /\ (T = "__half" \/ math_type0 = "TENSOR_OP")
                    THEN BOOLEAN ELSE {TRUE}
  /\ pc = "start"
  /\ ip = 1
  /\ math_type = "DEFAULT"
  /\ valid = << >>
  /\ out = [ n |-> 0, c |-> 0, h |-> 0, w |-> 0 ]
  /\ advised = NoAlgo
  /\ workspace_bytes = 0
  /\ invoked = {}
  /\ failed = {}
  /\ callArgs = << >>
  /\ skips = 0
  /\ counters = << >>
  /\ items = << >>
  /\ iterations = 0
  /\ events = << >>
  /\ timedCalls = 0
  /\ cudnn_err = FALSE
  /\ cuda_err = FALSE
  /\ errIter = 0
  /\ loopErr = FALSE
  /\ paused = FALSE
  /\ deferred = << >>
  /\ released = << >>


\* ------------------------------------------------- decoding of state.range
\* iLAYER_CUDNN_CONV_FWD_Impl
ConvFwdArgs(a) ==
  [ batch_size |-> a[0], channels |-> a[1], height |-> a[2], width |-> a[3],
    num_filters |-> a[4],
    filter_height |-> a[5], filter_width |-> a[6],
    pad_height |-> a[7], pad_width |-> a[8],
    stride_height |-> a[9], stride_width |-> a[10],
    dilation_height |-> a[11], dilation_width |-> a[12],
    group |-> IF a[13] = 0 THEN 1 ELSE a[13] ]

\* iLAYER_CUDNN_CONV_BIAS_ACTIVATION_FWD_Impl
FusedArgs(a) ==
  [ batch_size |-> a[0], channels |-> a[1], height |-> a[2], width |-> a[3],
    num_filters |-> a[4],
    filter_width |-> a[5], filter_height |-> a[6],
    pad_width |-> a[7], pad_height |-> a[8],
    stride_width |-> a[9], stride_height |-> a[10],
    dilation_height |-> a[11], dilation_width |-> a[12],
    group |-> IF a[13] = 0 THEN 1 ELSE a[13] ]

\* iLAYER_CUDNN_CONV_BWD_DATA_Impl
BwdDataArgs(a) ==
  [ batch_size |-> a[0], channels |-> a[1], height |-> a[2], width |-> a[3],
    num_filters |-> a[4],
    filter_width |-> a[5], filter_height |-> a[6],
    pad_width |-> a[7], pad_height |-> a[8],
    stride_width |-> a[9], stride_height |-> a[10],
    dilation_height |-> a[11], dilation_width |-> a[12],
    group |-> IF a[13] = 0 THEN 1 ELSE a[13] ]

\* LAYER_CUDNN_CONV_BWD_BIAS_Impl (no group argument is read)
BwdBiasArgs(a) ==
  [ batch_size |-> a[0], channels |-> a[1], height |-> a[2], width |-> a[3],
    num_filters |-> a[4],
    filter_width |-> a[5], filter_height |-> a[6],
    pad_width |-> a[7], pad_height |-> a[8],
    stride_width |-> a[9], stride_height |-> a[10],
    dilation_height |-> a[11], dilation_width |-> a[12],
    group |-> 1 ]

ConvArgs(b, a) ==
  CASE b = "CONV_FWD" -> ConvFwdArgs(a)
    [] b = "CONV_BIAS_ACTIVATION_FWD" -> FusedArgs(a)
    [] b = "CONV_BWD_DATA" -> BwdDataArgs(a)
    [] OTHER -> BwdBiasArgs(a)

\* iLAYER_CUDNN_POOLING_BWD_Impl
PoolingArgs(a) ==
  [ in_n |-> a[0], in_c |-> a[1], in_h |-> a[2], in_w |-> a[3],
    win_h |-> a[4], win_w |-> a[5],
    vert_padding |-> a[6], hori_padding |-> a[7],
    vert_stride |-> a[8], hori_stride |-> a[9] ]

\* n, c, h, w as read by the scale-tensor and batch-normalization functions
PlainTensorArgs(a) ==
  [ in_n |-> a[0], in_c |-> a[1], in_h |-> a[2], in_w |-> a[3] ]

\* The arguments read without the replacement of -1.
UnnormalizedTensorArgs(a) ==
  [ in_n |-> a[0], in_c |-> a[1], in_h |-> a[2], in_w |-> a[3] ]

\* n, c, h, w as read by the activation-backward and dropout functions
NormalizedTensorArgs(a) ==
  [ in_n |-> a[0], in_c |-> a[1],
    in_h |-> IF a[2] = -1 THEN 1 ELSE a[2],
    in_w |-> IF a[3] = -1 THEN 1 ELSE a[3] ]

TensorArgs(b, a) ==
  IF b \in {"ACTIVATION_BWD", "DROPOUT_FWD"} THEN NormalizedTensorArgs(a)
  ELSE PlainTensorArgs(a)

\* iLAYER_CUBLAS_GEMM_FWD_Impl
GemmArgs(a) ==
  LET transA == IF a[3] = 0 THEN "N" ELSE "T"
      transB == IF a[4] = 0 THEN "N" ELSE "T"
  IN  [ M |-> a[0], N |-> a[1], K |-> a[2],
        transA |-> transA, transB |-> transB,
        alpha |-> a[5], beta |-> a[6],
        lda |-> IF transA = "N" THEN a[0] ELSE a[2],
        ldb |-> IF transB = "N" THEN a[2] ELSE a[1] ]

\* ------------------------------------------------------ the vendor's shapes
\* Output extent of a convolution / pooling window, as the vendor library
\* documents it for cudnnGetConvolution2dForwardOutputDim.
OutDim(in, pad, filt, stride, dil) ==
  1 + (in + 2 * pad - ((filt - 1) * dil + 1)) \div stride

OutDimDefined(in, pad, filt, stride, dil) ==
  stride > 0 /\ in + 2 * pad - ((filt - 1) * dil + 1) >= 0

\* detail::calc_conv_out_dim of helper.hpp
calc_conv_out_dim(in, filt, pad, stride, dil) ==
  OutDim(in, pad, filt, stride, dil)

\* --------------------------------------------------- set-up statement lists
Call(name)        == [ kind |-> "call",      name |-> name, check |-> "" ]
GroupCall(name)   == [ kind |-> "group",     name |-> name, check |-> "" ]
Quiet(name)       == [ kind |-> "quiet",     name |-> name, check |-> "" ]
SizeQuery(name)   == [ kind |-> "size",      name |-> name, check |-> "" ]
Defer(name)       == [ kind |-> "defer",     name |-> name, check |-> "" ]
Helper(obj, chk)  == [ kind |-> "helper",    name |-> obj,  check |-> chk ]
OutDimQuery(name) == [ kind |-> "outdim",    name |-> name, check |-> "" ]
PoolDimQuery(name) == [ kind |-> "pooldim",  name |-> name, check |-> "" ]
AdviseQuery(name) == [ kind |-> "advise",    name |-> name, check |-> "" ]
WorkspaceQuery(name) == [ kind |-> "workspace", name |-> name, check |-> "" ]
EarlyCounters     == [ kind |-> "counters",  name |-> "",   check |-> "" ]

ScaleTensorSetup ==
  << Helper("input_tensor", "input_tensor"),
     Helper("input_memory", "input_memory"),
     Quiet("cudaEventCreate(start)"),
     Quiet("cudaEventCreate(stop)") >>

ConvFwdSetup ==
  << Call("cudnnCreateConvolutionDescriptor"),
     Call("cudnnSetConvolution2dDescriptor"),
     Defer("cudnnDestroyConvolutionDescriptor"),
     GroupCall("cudnnSetConvolutionGroupCount"),
     Call("cudnnSetConvolutionMathType"),
     Helper("x_tensor", "x_tensor"),
     Helper("w_filter", "w_filter"),
     OutDimQuery("cudnnGetConvolution2dForwardOutputDim"),
     Helper("y_tensor", "y_tensor"),
     AdviseQuery("cudnnGetConvolutionForwardAlgorithm"),
     WorkspaceQuery("cudnnGetConvolutionForwardWorkspaceSize"),
     Helper("workspace_memory", "workspace_memory"),
     Helper("x_memory", "x_memory"),
     Helper("w_memory", "w_memory"),
     Helper("y_memory", "y_memory"),
     Call("cudnnSetConvolutionMathType") >>

FusedSetup ==
  << Call("cudnnCreateConvolutionDescriptor"),
     Call("cudnnSetConvolution2dDescriptor"),
     Defer("cudnnDestroyConvolutionDescriptor"),
     Call("cudnnCreateActivationDescriptor"),
     Call("cudnnSetActivationDescriptor"),
     Defer("cudnnDestroyActivationDescriptor"),
     GroupCall("cudnnSetConvolutionGroupCount"),
     Quiet("cudnnSetConvolutionMathType"),
     Helper("x_tensor", "x_tensor"),
     Helper("w_filter", "w_filter"),
     OutDimQuery("cudnnGetConvolution2dForwardOutputDim"),
     Helper("y_tensor", "y_tensor"),
     Helper("bias_tensor", "bias_tensor"),
     AdviseQuery("cudnnGetConvolutionForwardAlgorithm"),
     WorkspaceQuery("cudnnGetConvolutionForwardWorkspaceSize"),
     Helper("workspace_memory", "workspace_memory"),
     Helper("x_memory", "x_memory"),
     Helper("w_memory", "w_memory"),
     Helper("y_memory", "y_memory"),
     Helper("z_memory", "z_memory"),
     Helper("bias_memory", "bias_memory") >>

BwdDataSetup ==
  << Call("cudnnCreateConvolutionDescriptor"),
     Call("cudnnSetConvolution2dDescriptor"),
     Defer("cudnnDestroyConvolutionDescriptor"),
     Call("cudnnSetConvolutionMathType"),
     Call("cudnnSetConvolutionGroupCount"),
     Helper("dx_tensor", "dx_tensor"),
     Helper("w_filter", "w_filter"),
     OutDimQuery("cudnnGetConvolution2dForwardOutputDim"),
     Helper("dy_tensor", "dy_tensor"),
     AdviseQuery("cudnnGetConvolutionBackwardDataAlgorithm"),
     WorkspaceQuery("cudnnGetConvolutionBackwardDataWorkspaceSize"),
     Helper("workspace_memory", "workspace_memory"),
     Helper("w_memory", "w_memory"),
     Helper("dy_memory", "dy_memory"),
     Helper("dx_memory", "dx_memory") >>

BwdBiasSetup ==
  << Helper("db_tensor", "db_tensor"),
     Helper("dy_tensor", "dy_tensor"),
     Helper("dy_memory", "dy_memory"),
     Helper("db_memory", "db_memory") >>

PoolingBwdSetup ==
  << Helper("x_tensor", "x_tensor"),
     Call("cudnnCreatePoolingDescriptor"),
     Call("cudnnSetPooling2dDescriptor"),
     Defer("cudnnDestroyPoolingDescriptor"),
     PoolDimQuery("cudnnGetPooling2dForwardOutputDim"),
     Helper("y_tensor", "y_tensor"),
     Helper("x_memory", "x_memory"),
     Helper("dx_memory", "dx_memory"),
     Helper("y_memory", "y_memory"),
     Helper("dy_memory", "y_memory") >>

\* GemmSetup with the clean-up of d_b registered before its allocation.
GemmSetupDeferFirst ==
  << EarlyCounters,
     Call("cublasSetMathMode"),
     Call("cudaMalloc(d_a)"),
     Defer("cudaFree(d_a)"),
     Defer("cudaFree(d_b)"),
     Call("cudaMalloc(d_b)"),
     Call("cudaMalloc(d_c)"),
     Defer("cudaFree(d_c)"),
     Call("cublasSetMatrix(a)"),
     Call("cublasSetMatrix(b)"),
     Call("cublasSetMatrix(c)") >>

GemmSetup ==
  << EarlyCounters,
     Call("cublasSetMathMode"),
     Call("cudaMalloc(d_a)"),
     Defer("cudaFree(d_a)"),
     Call("cudaMalloc(d_b)"),
     Defer("cudaFree(d_b)"),
     Call("cudaMalloc(d_c)"),
     Defer("cudaFree(d_c)"),
     Call("cublasSetMatrix(a)"),
     Call("cublasSetMatrix(b)"),
     Call("cublasSetMatrix(c)") >>

ActivationBwdSetup ==
  << Helper("x_tensor", "x_tensor"),
     Helper("x_memory", "x_memory"),
     Helper("dx_memory", "dx_memory"),
     Helper("y_memory", "y_memory"),
     Helper("dy_memory", "dy_memory"),
     Call("cudnnCreateActivationDescriptor"),
     Call("cudnnSetActivationDescriptor") >>

BatchnormFwdSetup ==
  << Helper("x_tensor", "x_tensor"),
     Call("cudnnCreateTensorDescriptor"),
     Call("cudnnDeriveBNTensorDescriptor"),
     SizeQuery("cudnnGetTensorSizeInBytes"),
     Helper("x_memory", "x_memory"),
     Helper("y_memory", "y_memory"),
     Helper("scale_memory", "scale_memory"),
     Helper("bias_memory", "bias_memory"),
     Helper("batch_mean_memory", "batch_mean_memory"),
     Helper("batch_var_memory", "batch_var_memory"),
     Helper("saved_mean_memory", "saved_mean_memory"),
     Helper("saved_in_var_memory", "saved_in_var_memory"),
     Helper("estimated_mean_memory", "estimated_mean_memory"),
     Helper("estimated_var_memory", "estimated_var_memory") >>

\* DropoutFwdSetup with the descriptor set before the states buffer exists.
DropoutFwdSetupSetFirst ==
  << Helper("x_tensor", "x_tensor"),
     Call("cudnnCreateDropoutDescriptor"),
     SizeQuery("cudnnDropoutGetStatesSize"),
     Call("cudnnSetDropoutDescriptor"),
     Helper("states_memory", "states_memory"),
     Defer("cudnnDestroyDropoutDescriptor"),
     SizeQuery("cudnnDropoutGetReserveSpaceSize"),
     Helper("reserve_space_memory", "reserve_space_memory"),
     Helper("x_memory", "x_memory"),
     Helper("y_memory", "y_memory") >>

DropoutFwdSetup ==
  << Helper("x_tensor", "x_tensor"),
     Call("cudnnCreateDropoutDescriptor"),
     SizeQuery("cudnnDropoutGetStatesSize"),
     Helper("states_memory", "states_memory"),
     Call("cudnnSetDropoutDescriptor"),
     Defer("cudnnDestroyDropoutDescriptor"),
     SizeQuery("cudnnDropoutGetReserveSpaceSize"),
     Helper("reserve_space_memory", "reserve_space_memory"),
     Helper("x_memory", "x_memory"),
     Helper("y_memory", "y_memory") >>

Setup(b) ==
  CASE b = "SCALE_TENSOR" -> ScaleTensorSetup
    [] b = "CONV_FWD" -> ConvFwdSetup
    [] b = "CONV_BIAS_ACTIVATION_FWD" -> FusedSetup
    [] b = "CONV_BWD_DATA" -> BwdDataSetup
    [] b = "CONV_BWD_BIAS" -> BwdBiasSetup
    [] b = "POOLING_BWD" -> PoolingBwdSetup
    [] b = "GEMM_FWD" -> GemmSetup
    [] b = "ACTIVATION_BWD" -> ActivationBwdSetup
    [] b = "BATCHNORM_FWD" -> BatchnormFwdSetup
    [] OTHER -> DropoutFwdSetup


\* ------------------------------------------------------- common machinery
Put(m, k, v) == [ x \in DOMAIN m \cup {k} |-> IF x = k THEN v ELSE m[x] ]

CurStep == Setup(bench)[ip]

InSetup(kind) ==
  /\ pc = "setup"
  /\ ip <= Len(Setup(bench))
  /\ CurStep.kind = kind

\* Fall through to the next set-up statement, or to the timed loop.
Advance ==
  /\ ip' = ip + 1
  /\ pc' = IF ip + 1 > Len(Setup(bench)) THEN "loop" ELSE "setup"
  /\ UNCHANGED deferVars

\* return: the clean-ups registered with defer run in reverse order.
Return ==
  /\ pc' = "done"
  /\ ip' = ip
  /\ released' = released \o Reverse(deferred)
  /\ deferred' = << >>

\* state.SkipWithError(...)
SkipWithError == skips' = skips + 1

\* Tensor / Filter / DeviceMemory of helper.hpp: a constructor whose vendor
\* call fails reports the error to the framework and leaves is_valid false.
HelperSkips(ok) == IF ok THEN 0 ELSE 1

XTensorOf(b) ==
  CASE b = "CONV_BWD_DATA" -> "dx_tensor"
    [] b = "SCALE_TENSOR" -> "input_tensor"
    [] OTHER -> "x_tensor"

ShapedObjects ==
  { "x_tensor", "dx_tensor", "input_tensor", "w_filter", "y_tensor",
    "dy_tensor", "bias_tensor" }

\* The shape handed to the Tensor / Filter constructor of object obj.
Shape(b, obj) ==
  LET conv == b \in ConvBenches \cup {"CONV_BWD_BIAS"}
      p == ConvArgs(b, args)
      q == IF b = "POOLING_BWD" THEN PoolingArgs(args) ELSE TensorArgs(b, args)
  IN  CASE obj \in {"x_tensor", "dx_tensor", "input_tensor"} ->
             IF conv
             THEN [ n |-> p.batch_size, c |-> p.channels,
                    h |-> p.height, w |-> p.width ]
             ELSE [ n |-> q.in_n, c |-> q.in_c, h |-> q.in_h, w |-> q.in_w ]
        [] obj = "w_filter" ->
             [ n |-> p.num_filters, c |-> p.channels,
               h |-> p.filter_height, w |-> p.filter_width,
               group |-> IF b \in {"CONV_FWD", "CONV_BIAS_ACTIVATION_FWD"}
                         THEN p.group ELSE 1 ]
        [] obj = "bias_tensor" -> [ n |-> 1, c |-> out.c, h |-> 1, w |-> 1 ]
        [] OTHER -> out

ArgRecordingCalls ==
  { "cudnnSetConvolution2dDescriptor", "cudnnSetConvolutionGroupCount",
    "cudnnSetConvolutionMathType", "cudnnSetDropoutDescriptor" }

\* The size a successful size query left in its output variable.
QueriedSize(name) == callArgs[name].size

\* The arguments the function passes to a set-up vendor call.
StepArgs(b, name) ==
  LET p == ConvArgs(b, args)
  IN  CASE name = "cudnnSetConvolution2dDescriptor" ->
             [ pad_h |-> p.pad_height, pad_w |-> p.pad_width,
               u |-> p.stride_height, v |-> p.stride_width,
               dilation_h |-> p.dilation_height,
               dilation_w |-> p.dilation_width ]
        [] name = "cudnnSetConvolutionGroupCount" -> [ group |-> p.group ]
        [] name = "cudnnSetDropoutDescriptor" ->
             [ states |-> "states_memory",
               stateSizeInBytes |-> QueriedSize("cudnnDropoutGetStatesSize") ]
        [] OTHER -> [ mathType |-> math_type ]

\* The size query whose result is the byte count of a device buffer.
SizedBy(obj) ==
  IF obj = "states_memory" THEN "cudnnDropoutGetStatesSize"
  ELSE "cudnnDropoutGetReserveSpaceSize"

SizedMemories == { "states_memory", "reserve_space_memory" }

\* The constructor arguments of a helper object that the model keeps.
HelperArgs(b, obj) ==
  IF obj \in ShapedObjects THEN Put(callArgs, obj, Shape(b, obj))
  ELSE IF obj \in SizedMemories
  THEN Put(callArgs, obj, [ bytes |-> QueriedSize(SizedBy(obj)) ])
  ELSE callArgs

RecordArgs(b, name) ==
  IF name \in ArgRecordingCalls
  THEN Put(callArgs, name, StepArgs(b, name))
  ELSE callArgs

\* ------------------------------------------------------------------- entry
\* out_n, out_c, out_h, out_w of the functions that derive them from the
\* arguments: the bias gradient computes them with calc_conv_out_dim, the
\* activation, batch-normalization and dropout functions copy the input's.
EntryOutDims(b) ==
  CASE b = "CONV_BWD_BIAS" ->
         LET p == BwdBiasArgs(args)
         IN  [ n |-> p.batch_size, c |-> p.num_filters,
               h |-> calc_conv_out_dim(p.height, p.filter_height,
                       p.pad_height, p.stride_height, p.dilation_height),
               w |-> calc_conv_out_dim(p.width, p.filter_width,
                       p.pad_width, p.stride_width, p.dilation_width) ]
    [] b \in {"ACTIVATION_BWD", "BATCHNORM_FWD", "DROPOUT_FWD"} ->
         LET q == TensorArgs(b, args)
         IN  [ n |-> q.in_n, c |-> q.in_c, h |-> q.in_h, w |-> q.in_w ]
    [] OTHER -> out

\* Entry with the has_cuda check left out.
EnterUnguarded ==
  /\ pc = "start"
  /\ skips' = skips
  /\ pc' = IF bench \in ConvBenches THEN "math" ELSE "setup"
  /\ out' = EntryOutDims(bench)
  /\ UNCHANGED << paramVars, math_type, advised, workspace_bytes, callVars,
                  loopVars, deferVars, reportVars, ip, valid >>

\* if (!has_cuda) { state.SkipWithError(...); return; } at the head of every
\* benchmark function, then the reading of the arguments.
Enter ==
  /\ pc = "start"
  /\ IF ~has_cuda
     THEN /\ SkipWithError
          /\ pc' = "done"
          /\ out' = out
     ELSE /\ skips' = skips
          /\ pc' = IF bench \in ConvBenches THEN "math" ELSE "setup"
          /\ out' = EntryOutDims(bench)
  /\ UNCHANGED << paramVars, math_type, advised, workspace_bytes, callVars,
                  loopVars, deferVars, reportVars, ip, valid >>

\* The math type a convolution benchmark starts from, and whether it asks
\* for tensor cores.
InitialMathType(b) ==
  IF b = "CONV_BIAS_ACTIVATION_FWD" THEN "DEFAULT" ELSE math_type0

NeedsTensorCore(b) ==
  IF b = "CONV_BWD_DATA"
  THEN math_type0 = "TENSOR_OP"
  ELSE T = "__half" \/ InitialMathType(b) = "TENSOR_OP"

SelectedMathType(b) ==
  IF b = "CONV_BWD_DATA"
  THEN math_type0
  ELSE IF T = "__half" THEN "TENSOR_OP" ELSE InitialMathType(b)

\* #ifdef CUDNN_SUPPORTS_TENSOR_OPS ... #endif at the head of the three
\* convolution functions.
SelectMath ==
  /\ pc = "math"
  /\ IF NeedsTensorCore(bench) /\ ~tensorCore
     THEN /\ SkipWithError
          /\ pc' = "done"
          /\ math_type' = InitialMathType(bench)
     ELSE /\ skips' = skips
          /\ pc' = "setup"
          /\ math_type' = SelectedMathType(bench)
  /\ UNCHANGED << paramVars, out, advised, workspace_bytes, callVars,
                  loopVars, deferVars, reportVars, ip, valid >>

\* ----------------------------------------------------- set-up statements
\* if (PRINT_IF_ERROR(vendorCall(...))) { SkipWithError(...); return; }
SetupCall ==
  /\ InSetup("call")
  /\ \E ok \in BOOLEAN :
       /\ invoked' = invoked \cup {CurStep.name}
       /\ callArgs' = RecordArgs(bench, CurStep.name)
       /\ IF ok
          THEN /\ failed' = failed
               /\ skips' = skips
               /\ Advance
          ELSE /\ failed' = failed \cup {CurStep.name}
               /\ SkipWithError
               /\ Return
  /\ UNCHANGED << paramVars, convVars, loopVars, reportVars, valid >>

\* if (group > 0 && PRINT_IF_ERROR(cudnnSetConvolutionGroupCount(...)))
SetupGroupCall ==
  /\ InSetup("group")
  /\ LET group == ConvArgs(bench, args).group
     IN  \E ok \in BOOLEAN :
           IF group > 0
           THEN /\ invoked' = invoked \cup {CurStep.name}
                /\ callArgs' = RecordArgs(bench, CurStep.name)
                /\ IF ok
                   THEN /\ failed' = failed
                        /\ skips' = skips
                        /\ Advance
                   ELSE /\ failed' = failed \cup {CurStep.name}
                        /\ SkipWithError
                        /\ Return
           ELSE /\ UNCHANGED << callVars, skips >>
                /\ Advance
  /\ UNCHANGED << paramVars, convVars, loopVars, reportVars, valid >>

\* A vendor call whose status is printed or dropped and never acted upon.
SetupQuiet ==
  /\ InSetup("quiet")
  /\ \E ok \in BOOLEAN :
       /\ invoked' = invoked \cup {CurStep.name}
       /\ callArgs' = RecordArgs(bench, CurStep.name)
       /\ failed' = IF ok THEN failed ELSE failed \cup {CurStep.name}
  /\ Advance
  /\ UNCHANGED << paramVars, convVars, loopVars, reportVars, valid, skips >>

\* A size query: on success the size the vendor reports is kept.
SizeChoices == { 16, 32 }

\* What a size query is asked about.
SizeQueryOperand(name) ==
  CASE name = "cudnnDropoutGetReserveSpaceSize" -> "x_tensor"
    [] name = "cudnnGetTensorSizeInBytes" -> "scale_bias_descriptor"
    [] OTHER -> "cudnn_handle"

SetupSize ==
  /\ InSetup("size")
  /\ \E ok \in BOOLEAN, sz \in SizeChoices :
       /\ invoked' = invoked \cup {CurStep.name}
       /\ IF ok
          THEN /\ callArgs' = Put(callArgs, CurStep.name,
                 [ size |-> sz, of |-> SizeQueryOperand(CurStep.name) ])
               /\ failed' = failed
               /\ skips' = skips
               /\ Advance
          ELSE /\ callArgs' = callArgs
               /\ failed' = failed \cup {CurStep.name}
               /\ SkipWithError
               /\ Return
  /\ UNCHANGED << paramVars, convVars, loopVars, reportVars, valid >>

\* The construction of a helper object whose validity check never returns.
SetupHelperNoReturn ==
  /\ InSetup("helper")
  /\ \E ok \in BOOLEAN :
       LET obj == CurStep.name
       IN  /\ valid' = Put(valid, obj, ok)
           /\ invoked' = invoked \cup {obj}
           /\ failed' = IF ok THEN failed ELSE failed \cup {obj}
           /\ callArgs' = HelperArgs(bench, obj)
           /\ skips' = skips + HelperSkips(ok)
           /\ Advance
  /\ UNCHANGED << paramVars, convVars, loopVars, reportVars >>

\* auto obj = Tensor/Filter/DeviceMemory(state, ...);
\* if (!chk.is_valid) { return; }
SetupHelper ==
  /\ InSetup("helper")
  /\ \E ok \in BOOLEAN :
       LET obj == CurStep.name
           chk == CurStep.check
           v   == Put(valid, obj, ok)
       IN  /\ valid' = v
           /\ invoked' = invoked \cup {obj}
           /\ failed' = IF ok THEN failed ELSE failed \cup {obj}
           /\ callArgs' = HelperArgs(bench, obj)
           /\ skips' = skips + HelperSkips(ok)
           /\ IF v[chk] THEN Advance ELSE Return
  /\ UNCHANGED << paramVars, convVars, loopVars, reportVars >>

\* defer(cleanup(...));
SetupDefer ==
  /\ InSetup("defer")
  /\ deferred' = Append(deferred, CurStep.name)
  /\ released' = released
  /\ ip' = ip + 1
  /\ pc' = IF ip + 1 > Len(Setup(bench)) THEN "loop" ELSE "setup"
  /\ UNCHANGED << paramVars, convVars, callVars, loopVars, reportVars,
                  valid, skips >>


\* The functions whose LAYER_*_Impl entry point wraps the implementation in
\* try { ... } catch: activation-backward and convolution-backward-bias are
\* registered without such a wrapper.
HasCatch(b) == b \notin {"ACTIVATION_BWD", "CONV_BWD_BIAS"}

\* The statements of the set-up that build C++ objects and may throw: the
\* constructors of Tensor, Filter and DeviceMemory, and the counter map and
\* host vectors of the matrix-multiplication function.
MayThrow == InSetup("helper") \/ InSetup("counters")

\* An exception leaves the implementation: the clean-ups registered so far
\* run while the stack unwinds; the entry point's handler reports it with
\* SkipWithError, or, without a handler, it leaves the benchmark function.
Throw ==
  /\ MayThrow
  /\ ip' = ip
  /\ released' = released \o Reverse(deferred)
  /\ deferred' = << >>
  /\ IF HasCatch(bench)
     THEN /\ SkipWithError
          /\ pc' = "caught"
     ELSE /\ skips' = skips
          /\ pc' = "escaped"
  /\ UNCHANGED << paramVars, convVars, callVars, loopVars, reportVars, valid >>

\* cudnnGetConvolution2dForwardOutputDim(convolution_descriptor, x, w, ...)
\* with its error check; the vendor derives the extents from the descriptors
\* it was given.
SetupOutDim ==
  /\ InSetup("outdim")
  /\ LET d == callArgs["cudnnSetConvolution2dDescriptor"]
         x == callArgs[XTensorOf(bench)]
         f == callArgs["w_filter"]
         defined == /\ OutDimDefined(x.h, d.pad_h, f.h, d.u, d.dilation_h)
                    /\ OutDimDefined(x.w, d.pad_w, f.w, d.v, d.dilation_w)
     IN  \E ok \in BOOLEAN :
           /\ invoked' = invoked \cup {CurStep.name}
           /\ callArgs' = callArgs
           /\ IF ok /\ defined
              THEN /\ out' = [ n |-> x.n, c |-> f.n,
                               h |-> OutDim(x.h, d.pad_h, f.h, d.u, d.dilation_h),
                               w |-> OutDim(x.w, d.pad_w, f.w, d.v, d.dilation_w) ]
                   /\ failed' = failed
                   /\ skips' = skips
                   /\ Advance
              ELSE /\ out' = out
                   /\ failed' = failed \cup {CurStep.name}
                   /\ SkipWithError
                   /\ Return
  /\ UNCHANGED << paramVars, math_type, advised, workspace_bytes, loopVars,
                  reportVars, valid >>

\* cudnnGetPooling2dForwardOutputDim(pooling_descriptor, x_descriptor, ...)
SetupPoolDim ==
  /\ InSetup("pooldim")
  /\ LET p == PoolingArgs(args)
         x == callArgs["x_tensor"]
         defined == /\ OutDimDefined(x.h, p.vert_padding, p.win_h, p.vert_stride, 1)
                    /\ OutDimDefined(x.w, p.hori_padding, p.win_w, p.hori_stride, 1)
     IN  \E ok \in BOOLEAN :
           /\ invoked' = invoked \cup {CurStep.name}
           /\ callArgs' = callArgs
           /\ IF ok /\ defined
              THEN /\ out' = [ n |-> x.n, c |-> x.c,
                               h |-> OutDim(x.h, p.vert_padding, p.win_h, p.vert_stride, 1),
                               w |-> OutDim(x.w, p.hori_padding, p.win_w, p.hori_stride, 1) ]
                   /\ failed' = failed
                   /\ skips' = skips
                   /\ Advance
              ELSE /\ out' = out
                   /\ failed' = failed \cup {CurStep.name}
                   /\ SkipWithError
                   /\ Return
  /\ UNCHANGED << paramVars, math_type, advised, workspace_bytes, loopVars,
                  reportVars, valid >>

\* Another algorithm the vendor may advise besides the benchmarked one.
OtherAlgo(b) == IF b = "CONV_BWD_DATA" THEN "ALGO_1" ELSE "GEMM"

\* advised_convolution_algorithm = -1;
\* if (cudnnGet...Algorithm(..., &advised_convolution_algorithm) != SUCCESS)
\*   advised_convolution_algorithm = -1;
SetupAdvise ==
  /\ InSetup("advise")
  /\ \E ok \in BOOLEAN, a \in {alg, OtherAlgo(bench)} :
       /\ invoked' = invoked \cup {CurStep.name}
       /\ IF ok
          THEN /\ advised' = a
               /\ failed' = failed
          ELSE /\ advised' = NoAlgo
               /\ failed' = failed \cup {CurStep.name}
  /\ Advance
  /\ UNCHANGED << paramVars, math_type, out, workspace_bytes, callArgs,
                  loopVars, reportVars, valid, skips >>

\* Sizes the vendor's workspace query may report.
VendorWorkspaceSizes == { 0, 256 }

\* SetupWorkspace without the fall-back on a failed query.
SetupWorkspaceNoFallback ==
  /\ InSetup("workspace")
  /\ IF T = "int8_t"
     THEN /\ workspace_bytes' = kFallbackWorkspaceBytes
          /\ UNCHANGED << invoked, failed >>
     ELSE \E ok \in BOOLEAN, sz \in VendorWorkspaceSizes :
            /\ invoked' = invoked \cup {CurStep.name}
            /\ workspace_bytes' = sz
            /\ failed' = IF ok THEN failed ELSE failed \cup {CurStep.name}
  /\ Advance
  /\ UNCHANGED << paramVars, math_type, out, advised, callArgs, loopVars,
                  reportVars, valid, skips >>

\* workspace_bytes = 0;
\* if (is_same<T, int8_t>) workspace_bytes = 1073741824;
\* else if (PRINT_IF_ERROR(cudnnGet...WorkspaceSize(..., &workspace_bytes)))
\*   workspace_bytes = 1073741824;
SetupWorkspace ==
  /\ InSetup("workspace")
  /\ IF T = "int8_t"
     THEN /\ workspace_bytes' = kFallbackWorkspaceBytes
          /\ UNCHANGED << invoked, failed >>
     ELSE \E ok \in BOOLEAN, sz \in VendorWorkspaceSizes :
            /\ invoked' = invoked \cup {CurStep.name}
            /\ IF ok
               THEN /\ workspace_bytes' = sz
                    /\ failed' = failed
               ELSE /\ workspace_bytes' = kFallbackWorkspaceBytes
                    /\ failed' = failed \cup {CurStep.name}
  /\ Advance
  /\ UNCHANGED << paramVars, math_type, out, advised, callArgs, loopVars,
                  reportVars, valid, skips >>

\* The counters the matrix-multiplication function inserts before set-up.
SetupEarlyCounters ==
  /\ InSetup("counters")
  /\ LET g == GemmArgs(args)
     IN  counters' = Insert(counters,
           [ M |-> g.M, N |-> g.N, K |-> g.K,
             alpha |-> g.alpha, beta |-> g.beta,
             lda |-> g.lda, ldb |-> g.ldb,
             transA |-> IF g.transA = "N" THEN 0 ELSE 1,
             transB |-> IF g.transB = "N" THEN 0 ELSE 1 ])
  /\ items' = items
  /\ Advance
  /\ UNCHANGED << paramVars, convVars, callVars, loopVars, valid, skips >>

\* --------------------------------------------------------------- timed loop
\* The vendor call each function times.
TimedCall(b) ==
  CASE b = "SCALE_TENSOR" -> "cudnnScaleTensor"
    [] b = "CONV_FWD" -> "cudnnConvolutionForward"
    [] b = "CONV_BIAS_ACTIVATION_FWD" -> "cudnnConvolutionBiasActivationForward"
    [] b = "CONV_BWD_DATA" -> "cudnnConvolutionBackwardData"
    [] b = "CONV_BWD_BIAS" -> "cudnnConvolutionBackwardBias"
    [] b = "POOLING_BWD" -> "cudnnPoolingBackward"
    [] b = "GEMM_FWD" -> IF T = "__half" THEN "cublasGemmEx" ELSE "cublasSgemm"
    [] b = "ACTIVATION_BWD" -> "cudnnActivationBackward"
    [] b = "BATCHNORM_FWD" -> "cudnnBatchNormalizationForward"
    [] OTHER -> "cudnnDropoutForward"

\* The arguments of the timed matrix multiplication.
GemmCallArgs(a) ==
  LET g == GemmArgs(a)
  IN  IF T = "__half"
      THEN [ transa |-> "N", transb |-> "N", m |-> g.M, n |-> g.N, k |-> g.K,
             lda |-> g.M, ldb |-> g.K, ldc |-> g.M ]
      ELSE [ transa |-> g.transA, transb |-> g.transB,
             m |-> g.M, n |-> g.N, k |-> g.K,
             lda |-> g.lda, ldb |-> g.ldb, ldc |-> g.M ]

\* The arguments of the timed call that the model keeps.
TimedArgs(b) ==
  IF b = "GEMM_FWD" THEN Put(callArgs, TimedCall(b), GemmCallArgs(args))
  ELSE IF b = "DROPOUT_FWD"
  THEN Put(callArgs, TimedCall(b),
         [ reserveSpace |-> "reserve_space_memory",
           reserveSpaceSizeInBytes |->
             QueriedSize("cudnnDropoutGetReserveSpaceSize") ])
  ELSE callArgs

\* break out of the timed loop: the function goes on after the loop.
Break ==
  /\ loopErr' = TRUE
  /\ pc' = "report"

\* for (auto _ : state): the framework decides whether another iteration
\* runs; MaxIters caps the number of iterations.
CanIterate == pc = "loop" /\ iterations < MaxIters

LoopExit ==
  /\ pc = "loop"
  /\ iterations >= 1 \/ skips > 0
  /\ pc' = "report"
  /\ UNCHANGED << paramVars, convVars, callVars, loopVars, deferVars,
                  reportVars, ip, valid, skips >>

\* One iteration of BENCHMARK_BLOCK(status, { status = vendorCall(...); }):
\* the call is timed between two events; a failure of the call, of the
\* synchronization or of the elapsed-time read is reported and ends the loop.
BlockOutcomes == { "ok", "call", "sync", "elapsed" }

BenchmarkBlockIteration ==
  /\ CanIterate
  /\ bench # "SCALE_TENSOR"
  /\ \E outcome \in BlockOutcomes :
       /\ iterations' = iterations + 1
       /\ timedCalls' = timedCalls + 1
       /\ invoked' = invoked \cup {TimedCall(bench)}
       /\ callArgs' = TimedArgs(bench)
       /\ cudnn_err' = (outcome = "call")
       /\ cuda_err' = (outcome = "sync")
       /\ IF outcome = "ok"
          THEN /\ failed' = failed
               /\ skips' = skips
               /\ errIter' = errIter
               /\ loopErr' = loopErr
               /\ pc' = "loop"
          ELSE /\ failed' = failed \cup
                    { CASE outcome = "call" -> TimedCall(bench)
                        [] outcome = "sync" -> "cudaEventSynchronize"
                        [] OTHER -> "cudaEventElapsedTime" }
               /\ SkipWithError
               /\ errIter' = iterations + 1
               /\ Break
  /\ UNCHANGED << paramVars, convVars, deferVars, reportVars, ip, valid,
                  events, paused >>

\* -- the scale-tensor loop, statement by statement
\* cudaEventRecord(start, NULL);
ScaleRecordStart ==
  /\ CanIterate
  /\ bench = "SCALE_TENSOR"
  /\ iterations' = iterations + 1
  /\ events' = << "cudaEventRecord(start)" >>
  /\ pc' = "call"
  /\ UNCHANGED << paramVars, convVars, callVars, deferVars, reportVars, ip,
                  valid, skips, timedCalls, cudnn_err, cuda_err, errIter,
                  loopErr, paused >>

\* const cudnnStatus_t cudnn_err = cudnnScaleTensor(...);
ScaleCall ==
  /\ pc = "call"
  /\ \E ok \in BOOLEAN :
       /\ cudnn_err' = ~ok
       /\ failed' = IF ok THEN failed ELSE failed \cup {"cudnnScaleTensor"}
       /\ errIter' = IF ok THEN errIter ELSE iterations
  /\ invoked' = invoked \cup {"cudnnScaleTensor"}
  /\ timedCalls' = timedCalls + 1
  /\ events' = Append(events, "cudnnScaleTensor")
  /\ pc' = "record_stop"
  /\ UNCHANGED << paramVars, convVars, callArgs, deferVars, reportVars, ip,
                  valid, skips, iterations, cuda_err, loopErr, paused >>

\* cudaEventRecord(stop, NULL);
ScaleRecordStop ==
  /\ pc = "record_stop"
  /\ events' = Append(events, "cudaEventRecord(stop)")
  /\ pc' = "sync"
  /\ UNCHANGED << paramVars, convVars, callVars, deferVars, reportVars, ip,
                  valid, skips, iterations, timedCalls, cudnn_err, cuda_err,
                  errIter, loopErr, paused >>

\* const auto cuda_err = cudaEventSynchronize(stop);
ScaleSynchronize ==
  /\ pc = "sync"
  /\ \E ok \in BOOLEAN :
       /\ cuda_err' = ~ok
       /\ failed' = IF ok THEN failed ELSE failed \cup {"cudaEventSynchronize"}
       /\ errIter' = IF ok THEN errIter ELSE iterations
  /\ invoked' = invoked \cup {"cudaEventSynchronize"}
  /\ events' = Append(events, "cudaEventSynchronize")
  /\ pc' = "pause"
  /\ UNCHANGED << paramVars, convVars, callArgs, deferVars, reportVars, ip,
                  valid, skips, iterations, timedCalls, cudnn_err, loopErr,
                  paused >>

\* state.PauseTiming();
ScalePauseTiming ==
  /\ pc = "pause"
  /\ paused' = TRUE
  /\ events' = Append(events, "PauseTiming")
  /\ pc' = "check_cudnn"
  /\ UNCHANGED << paramVars, convVars, callVars, deferVars, reportVars, ip,
                  valid, skips, iterations, timedCalls, cudnn_err, cuda_err,
                  errIter, loopErr >>

\* if (PRINT_IF_ERROR(cudnn_err)) { state.SkipWithError(...); break; }
ScaleCheckCudnnErr ==
  /\ pc = "check_cudnn"
  /\ IF cudnn_err
     THEN /\ SkipWithError
          /\ events' = Append(events, "SkipWithError")
          /\ Break
     ELSE /\ skips' = skips
          /\ events' = events
          /\ loopErr' = loopErr
          /\ pc' = "check_cuda"
  /\ UNCHANGED << paramVars, convVars, callVars, deferVars, reportVars, ip,
                  valid, iterations, timedCalls, cudnn_err, cuda_err, errIter,
                  paused >>

\* The check of cuda_err with its break left out.
ScaleCheckCudaErrNoBreak ==
  /\ pc = "check_cuda"
  /\ IF cuda_err
     THEN /\ SkipWithError
          /\ events' = Append(events, "SkipWithError")
     ELSE /\ skips' = skips
          /\ events' = events
  /\ loopErr' = loopErr
  /\ pc' = "elapsed"
  /\ UNCHANGED << paramVars, convVars, callVars, deferVars, reportVars, ip,
                  valid, iterations, timedCalls, cudnn_err, cuda_err, errIter,
                  paused >>

\* if (PRINT_IF_ERROR(cuda_err)) { state.SkipWithError(...); break; }
ScaleCheckCudaErr ==
  /\ pc = "check_cuda"
  /\ IF cuda_err
     THEN /\ SkipWithError
          /\ events' = Append(events, "SkipWithError")
          /\ Break
     ELSE /\ skips' = skips
          /\ events' = events
          /\ loopErr' = loopErr
          /\ pc' = "elapsed"
  /\ UNCHANGED << paramVars, convVars, callVars, deferVars, reportVars, ip,
                  valid, iterations, timedCalls, cudnn_err, cuda_err, errIter,
                  paused >>

\* The elapsed-time read whose failure is reported but does not leave the
\* iteration.
ScaleElapsedTimeNoBreak ==
  /\ pc = "elapsed"
  /\ \E ok \in BOOLEAN :
       /\ failed' = IF ok THEN failed ELSE failed \cup {"cudaEventElapsedTime"}
       /\ errIter' = IF ok THEN errIter ELSE iterations
       /\ skips' = IF ok THEN skips ELSE skips + 1
       /\ events' = IF ok THEN Append(events, "cudaEventElapsedTime")
                    ELSE events \o << "cudaEventElapsedTime", "SkipWithError" >>
  /\ invoked' = invoked \cup {"cudaEventElapsedTime"}
  /\ loopErr' = loopErr
  /\ pc' = "set_time"
  /\ UNCHANGED << paramVars, convVars, callArgs, deferVars, reportVars, ip,
                  valid, iterations, timedCalls, cudnn_err, cuda_err, paused >>

\* float msecTotal = 0.0f;
\* if (PRINT_IF_ERROR(cudaEventElapsedTime(&msecTotal, start, stop))) {
\*   state.SkipWithError(...); break; }
ScaleElapsedTime ==
  /\ pc = "elapsed"
  /\ \E ok \in BOOLEAN :
       IF ok
       THEN /\ failed' = failed
            /\ errIter' = errIter
            /\ skips' = skips
            /\ events' = Append(events, "cudaEventElapsedTime")
            /\ loopErr' = loopErr
            /\ pc' = "set_time"
       ELSE /\ failed' = failed \cup {"cudaEventElapsedTime"}
            /\ errIter' = iterations
            /\ SkipWithError
            /\ events' = events \o << "cudaEventElapsedTime", "SkipWithError" >>
            /\ Break
  /\ invoked' = invoked \cup {"cudaEventElapsedTime"}
  /\ UNCHANGED << paramVars, convVars, callArgs, deferVars, reportVars, ip,
                  valid, iterations, timedCalls, cudnn_err, cuda_err, paused >>

\* state.SetIterationTime(msecTotal / 1000);
ScaleSetIterationTime ==
  /\ pc = "set_time"
  /\ events' = Append(events, "SetIterationTime")
  /\ pc' = "resume"
  /\ UNCHANGED << paramVars, convVars, callVars, deferVars, reportVars, ip,
                  valid, skips, iterations, timedCalls, cudnn_err, cuda_err,
                  errIter, loopErr, paused >>

\* state.ResumeTiming(); and back to the head of the loop
ScaleResumeTiming ==
  /\ pc = "resume"
  /\ paused' = FALSE
  /\ events' = Append(events, "ResumeTiming")
  /\ pc' = "loop"
  /\ UNCHANGED << paramVars, convVars, callVars, deferVars, reportVars, ip,
                  valid, skips, iterations, timedCalls, cudnn_err, cuda_err,
                  errIter, loopErr >>

\* ------------------------------------------------------------- reporting
ScaleFlops(f, k) == Flops(f.num * k, f.logcoef * k, f.logarg, f.den)

\* The shape counters of the convolution functions.
ConvShapeCounters(b) ==
  LET p == ConvArgs(b, args)
  IN  [ input_size |-> p.batch_size * p.channels * p.height * p.width,
        input_batch_size |-> p.batch_size, input_channels |-> p.channels,
        input_height |-> p.height, input_width |-> p.width,
        num_filters |-> p.num_filters,
        filter_height |-> p.filter_height, filter_width |-> p.filter_width,
        pad_height |-> p.pad_height, pad_width |-> p.pad_width,
        stride_height |-> p.stride_height, stride_width |-> p.stride_width,
        dilation_height |-> p.dilation_height,
        dilation_width |-> p.dilation_width,
        output_size |-> out.n * out.c * out.h * out.w,
        output_batch_size |-> out.n, output_channels |-> out.c,
        output_height |-> out.h, output_width |-> out.w ]

\* The counters that describe the algorithm, workspace and math type.
ConvRunCounters(b) ==
  [ workspace_bytes |-> workspace_bytes,
    workspace_megabytes |-> Flops(workspace_bytes, 0, 1, 1048576),
    convolution_algorithm |-> alg,
    advised_convolution_algorithm |-> advised,
    math_type |-> IF b = "CONV_BWD_DATA" THEN "DEFAULT" ELSE math_type ]

\* The shape counters of the functions that work on one tensor.
TensorShapeCounters(b) ==
  LET q == IF b = "POOLING_BWD" THEN PoolingArgs(args) ELSE TensorArgs(b, args)
  IN  [ input_size |-> q.in_n * q.in_c * q.in_h * q.in_w,
        input_batch_size |-> q.in_n, input_channels |-> q.in_c,
        input_height |-> q.in_h, input_width |-> q.in_w ]

OutputShapeCounters ==
  [ output_size |-> out.n * out.c * out.h * out.w,
    output_batch_size |-> out.n, output_channels |-> out.c,
    output_height |-> out.h, output_width |-> out.w ]

PoolingWindowCounters ==
  LET p == PoolingArgs(args)
  IN  [ window_height |-> p.win_h, window_width |-> p.win_w,
        vertical_padding |-> p.vert_padding,
        horizontal_padding |-> p.hori_padding,
        vertical_stride |-> p.vert_stride,
        horizontal_stride |-> p.hori_stride ]

\* compute_flops of iLAYER_CUDNN_CONV_FWD_Impl
ConvFwdComputeFlops(a) ==
  LET p == ConvFwdArgs(args)
      N == p.batch_size  K == p.num_filters  C == p.channels
      H == p.height      W == p.width
      R == p.filter_height  S == p.filter_width
      P == out.h  Q == out.w
  IN  CASE a \in {"IMPLICIT_GEMM", "IMPLICIT_PRECOMP_GEMM", "GEMM"} ->
             Exact(K * C * R * S * N * P * Q)
        [] a = "FFT" ->
             Flops(N * C * K * H * W, (N * C + C * K + N * K) * (H * W),
                   H * W, 1)
        [] OTHER -> Exact(-1)

\* compute_flops of iLAYER_CUDNN_CONV_BWD_DATA_Impl
BwdDataComputeFlops(a) ==
  LET p == BwdDataArgs(args)
      N == p.batch_size  K == p.num_filters  C == p.channels
      H == p.height      W == p.width
      R == p.filter_height  S == p.filter_width
      P == out.h  Q == out.w
  IN  CASE a \in {"ALGO_0", "ALGO_1"} ->
             Exact(K * C * R * S * N * P * Q)
        [] a = "FFT" ->
             Flops(N * C * K * H * W, (N * C + C * K + N * K) * (H * W),
                   H * W, 1)
        [] OTHER -> Exact(-1)

compute_flops(b, a) ==
  IF b = "CONV_BWD_DATA" THEN BwdDataComputeFlops(a) ELSE ConvFwdComputeFlops(a)

\* The estimate reported without the division by group.
UndividedFlops(b) == compute_flops(b, alg)

\* const double predicted_flops = compute_flops(convolution_algorithm) / group;
PredictedFlops(b) == DivFlops(compute_flops(b, alg), ConvArgs(b, args).group)

\* const double predicted_advised_flops = compute_flops(advised_...);
PredictedAdvisedFlops(b) == compute_flops(b, advised)

FlopsCounters(f) ==
  [ predicted_flops_count |-> f, predicted_flops |-> ScaleFlops(f, iterations) ]

AdvisedFlopsCounters(f) ==
  [ predicted_advised_flops_count |-> f,
    predicted_advised_flops |-> ScaleFlops(f, iterations) ]

\* state.SetItemsProcessed(int64_t(state.iterations()) * n)
SetItemsProcessed(n) == items' = Append(items, iterations * n)

reportFrame ==
  << paramVars, convVars, callVars, loopVars, valid, skips >>

\* The element count N * K * C * W * H the convolution functions report.
ConvItems(b) ==
  LET p == ConvArgs(b, args)
  IN  p.batch_size * p.num_filters * p.channels * p.width * p.height

TensorItems(b) == TensorShapeCounters(b).input_size

\* iLAYER_CUDNN_SCALE_TENSOR_Impl: counters and items after the loop
ReportScaleTensor ==
  /\ pc = "report" /\ bench = "SCALE_TENSOR"
  /\ counters' = Insert(counters,
       Insert(TensorShapeCounters(bench), [ alpha |-> args[4] ]))
  /\ SetItemsProcessed(TensorItems(bench))
  /\ Return
  /\ UNCHANGED reportFrame

\* iLAYER_CUDNN_CONV_FWD_Impl / iLAYER_CUDNN_CONV_BWD_DATA_Impl: the counters
\* and the FLOP estimates; the algorithm search follows.
ReportConv ==
  /\ pc = "report" /\ bench \in {"CONV_FWD", "CONV_BWD_DATA"}
  /\ LET shape == Insert(ConvShapeCounters(bench), ConvRunCounters(bench))
         c1 == Insert(counters, shape)
         c2 == Insert(c1, FlopsCounters(PredictedFlops(bench)))
     IN  counters' = IF advised # NoAlgo
                     THEN Insert(c2, AdvisedFlopsCounters(PredictedAdvisedFlops(bench)))
                     ELSE c2
  /\ items' = items
  /\ pc' = "find"
  /\ UNCHANGED << reportFrame, deferVars, ip >>

\* iLAYER_CUDNN_CONV_BIAS_ACTIVATION_FWD_Impl: the counters; the algorithm
\* search follows.
ReportFused ==
  /\ pc = "report" /\ bench = "CONV_BIAS_ACTIVATION_FWD"
  /\ counters' = Insert(counters,
       Insert(ConvShapeCounters(bench), ConvRunCounters(bench)))
  /\ items' = items
  /\ pc' = "find"
  /\ UNCHANGED << reportFrame, deferVars, ip >>

\* LAYER_CUDNN_CONV_BWD_BIAS_Impl
ReportBwdBias ==
  /\ pc = "report" /\ bench = "CONV_BWD_BIAS"
  /\ counters' = Insert(counters, ConvShapeCounters(bench))
  /\ SetItemsProcessed(ConvItems(bench))
  /\ Return
  /\ UNCHANGED reportFrame

\* iLAYER_CUDNN_POOLING_BWD_Impl
ReportPooling ==
  /\ pc = "report" /\ bench = "POOLING_BWD"
  /\ counters' = Insert(
       Insert(counters,
         Insert(Insert(TensorShapeCounters(bench), OutputShapeCounters),
                PoolingWindowCounters)),
       FlopsCounters(Exact(TensorItems(bench))))
  /\ SetItemsProcessed(TensorItems(bench))
  /\ Return
  /\ UNCHANGED reportFrame

\* compute_flops of LAYER_CUDNN_ACTIVATION_BWD_Impl
ActivationComputeFlops(mode) ==
  CASE mode = "IDENTITY" -> Exact(0)
    [] mode \in {"SIGMOID", "RELU", "TANH", "CLIPPED_RELU", "ELU"} ->
         Exact(TensorItems("ACTIVATION_BWD"))
    [] OTHER -> Exact(-1)

\* LAYER_CUDNN_ACTIVATION_BWD_Impl
ReportActivation ==
  /\ pc = "report" /\ bench = "ACTIVATION_BWD"
  /\ counters' = Insert(
       Insert(counters,
         Insert(Insert(TensorShapeCounters(bench), OutputShapeCounters),
                [ activation_mode |-> alg ])),
       FlopsCounters(ActivationComputeFlops(alg)))
  /\ SetItemsProcessed(TensorItems(bench))
  /\ Return
  /\ UNCHANGED reportFrame

\* iLAYER_CUDNN_BATCHNORM_FWD_Impl and iLAYER_CUDNN_DROPOUT_FWD_Impl
ReportTensor ==
  /\ pc = "report" /\ bench \in {"BATCHNORM_FWD", "DROPOUT_FWD"}
  /\ counters' = Insert(
       Insert(counters, Insert(TensorShapeCounters(bench), OutputShapeCounters)),
       FlopsCounters(Exact(TensorItems(bench))))
  /\ SetItemsProcessed(TensorItems(bench))
  /\ Return
  /\ UNCHANGED reportFrame

\* The estimate with the factor of two left out.
GemmFlopsHalved(a) == LET g == GemmArgs(a) IN Exact(g.M * g.N * g.K)

\* const double predicted_flops = 2.0 * M * N * K;
GemmPredictedFlops(a) == LET g == GemmArgs(a) IN Exact(2 * g.M * g.N * g.K)

\* iLAYER_CUBLAS_GEMM_FWD_Impl
ReportGemm ==
  /\ pc = "report" /\ bench = "GEMM_FWD"
  /\ counters' = Insert(counters, FlopsCounters(GemmPredictedFlops(args)))
  /\ LET g == GemmArgs(args) IN SetItemsProcessed(g.M * g.N * g.K)
  /\ Return
  /\ UNCHANGED reportFrame

\* What the algorithm search may leave in returned_count and perfResults:
\* the algorithms of the entries read by the loop over the results.  After
\* a failed search both are uninitialized, so any content is possible.
PerfResults(b) ==
  UNION { [ 1..n -> {alg, OtherAlgo(b)} ] : n \in 0..MaxReturned }

FindCall(b) ==
  IF b = "CONV_BWD_DATA" THEN "cudnnFindConvolutionBackwardDataAlgorithm"
  ELSE "cudnnFindConvolutionForwardAlgorithm"

\* The algorithm search whose failure is not reported.
FindAlgorithmsNoSkip ==
  /\ pc = "find"
  /\ \E ok \in BOOLEAN, perfResults \in PerfResults(bench) :
       /\ invoked' = invoked \cup {FindCall(bench)}
       /\ failed' = IF ok THEN failed ELSE failed \cup {FindCall(bench)}
       /\ skips' = skips
       /\ counters' =
            IF \E ii \in 1..Len(perfResults) : perfResults[ii] = alg
            THEN Insert(counters, [ advised_time |-> "time",
                                    advised_memory |-> "memory",
                                    advised_determinism |-> "determinism" ])
            ELSE counters
  /\ SetItemsProcessed(ConvItems(bench))
  /\ Return
  /\ UNCHANGED << paramVars, convVars, callArgs, loopVars, valid >>

\* cudnn_err = cudnnFind...Algorithm(...); a failure is reported and the
\* function goes on: the loop over perfResults, then SetItemsProcessed.
FindAlgorithms ==
  /\ pc = "find"
  /\ \E ok \in BOOLEAN, perfResults \in PerfResults(bench) :
       /\ invoked' = invoked \cup {FindCall(bench)}
       /\ failed' = IF ok THEN failed ELSE failed \cup {FindCall(bench)}
       /\ skips' = IF ok THEN skips ELSE skips + 1
       /\ counters' =
            IF \E ii \in 1..Len(perfResults) : perfResults[ii] = alg
            THEN Insert(counters, [ advised_time |-> "time",
                                    advised_memory |-> "memory",
                                    advised_determinism |-> "determinism" ])
            ELSE counters
  /\ SetItemsProcessed(ConvItems(bench))
  /\ Return
  /\ UNCHANGED << paramVars, convVars, callArgs, loopVars, valid >>

Next ==
  \/ Enter
  \/ SelectMath
  \/ SetupCall
  \/ SetupGroupCall
  \/ SetupQuiet
  \/ SetupSize
  \/ SetupHelper
  \/ SetupDefer
  \/ Throw
  \/ SetupOutDim
  \/ SetupPoolDim
  \/ SetupAdvise
  \/ SetupWorkspace
  \/ SetupEarlyCounters
  \/ LoopExit
  \/ BenchmarkBlockIteration
  \/ ScaleRecordStart
  \/ ScaleCall
  \/ ScaleRecordStop
  \/ ScaleSynchronize
  \/ ScalePauseTiming
  \/ ScaleCheckCudnnErr
  \/ ScaleCheckCudaErr
  \/ ScaleElapsedTime
  \/ ScaleSetIterationTime
  \/ ScaleResumeTiming
  \/ ReportScaleTensor
  \/ ReportConv
  \/ ReportFused
  \/ ReportBwdBias
  \/ ReportPooling
  \/ ReportActivation
  \/ ReportTensor
  \/ ReportGemm
  \/ FindAlgorithms

Spec == Init /\ [][Next]_vars

\* ------------------------------------------------------------------ claims
\* The two queries of the convolution functions whose failure is absorbed.
AbsorbedQueries ==
  { "cudnnGetConvolutionForwardAlgorithm",
    "cudnnGetConvolutionForwardWorkspaceSize" }

\* C1 as stated: in the convolution-forward function, whenever any vendor
\* call of the run returned an error, SkipWithError was called at least once
\* by the time the function returns.
C1_EveryErrorSkips ==
  (bench = "CONV_FWD" /\ pc = "done" /\ failed # {}) => skips >= 1

\* C1 amended: in the convolution-forward function an error of any vendor
\* call other than the advised-algorithm query and the workspace-size query
\* marks the run skipped; a run in which only those two queries failed is
\* not marked skipped.
C1_CheckedErrorSkips ==
  bench = "CONV_FWD" =>
    /\ (failed \ AbsorbedQueries) # {} => skips >= 1
    /\ ( /\ pc = "done"
         /\ "cudnnCreateConvolutionDescriptor" \in invoked
         /\ failed \subseteq AbsorbedQueries ) => skips = 0

C1_Witness ==
  /\ bench = "CONV_FWD" /\ pc = "done"
  /\ "cudnnFindConvolutionForwardAlgorithm" \in failed
  /\ "cudnnGetConvolutionForwardAlgorithm" \in failed
  /\ skips = 1

\* C2: in the scale-tensor loop, once the timed call, the synchronization or
\* the elapsed-time read fails in some iteration, SkipWithError is called
\* exactly once in the run, no later iteration begins and cudnnScaleTensor is
\* not invoked again.
C2_ErrorEndsLoop ==
  bench = "SCALE_TENSOR" =>
    /\ skips <= 1
    /\ errIter > 0 =>
         /\ iterations = errIter
         /\ timedCalls = errIter
         /\ pc # "loop"
         /\ pc \in {"report", "done"} => (skips = 1 /\ loopErr)
         /\ pc \notin {"report", "done"} => skips = 0

C2_Witness ==
  /\ bench = "SCALE_TENSOR" /\ pc = "done"
  /\ errIter = 2 /\ timedCalls = 2 /\ skips = 1
  /\ "cudaEventSynchronize" \in failed

\* The five timing events of an iteration, in program order.
TimingOrder ==
  << "cudaEventRecord(start)", "cudnnScaleTensor", "cudaEventRecord(stop)",
     "cudaEventSynchronize", "cudaEventElapsedTime" >>

IsTimingEvent(e) == \E i \in 1..Len(TimingOrder) : TimingOrder[i] = e

IsSetIterationTime(e) == e = "SetIterationTime"

IsPrefix(s, t) == Len(s) <= Len(t) /\ \A i \in 1..Len(s) : s[i] = t[i]

\* C3: in every iteration of the scale-tensor loop the timing events occur in
\* the order record start, cudnnScaleTensor, record stop, synchronize, read
\* elapsed time; SetIterationTime is called exactly once in an iteration
\* without error (after the elapsed time was read) and never in an iteration
\* that reported an error.
C3_IterationOrder ==
  bench = "SCALE_TENSOR" =>
    LET timing == SelectSeq(events, IsTimingEvent)
        sets   == Len(SelectSeq(events, IsSetIterationTime))
    IN  /\ IsPrefix(timing, TimingOrder)
        /\ sets <= 1
        /\ sets = 1 => timing = TimingOrder
        /\ (errIter > 0 /\ errIter = iterations) => sets = 0
        /\ (pc \in {"loop", "report", "done"} /\ iterations > 0 /\ errIter = 0)
             => sets = 1

C3_Witness ==
  /\ bench = "SCALE_TENSOR" /\ pc = "done"
  /\ iterations = 2 /\ errIter = 2
  /\ "cudaEventElapsedTime" \in failed
  /\ SelectSeq(events, IsTimingEvent) = TimingOrder

\* The set-up steps of the convolution-forward function.
ConvFwdSetupSteps ==
  { "cudnnCreateConvolutionDescriptor", "cudnnSetConvolution2dDescriptor",
    "cudnnSetConvolutionGroupCount", "cudnnSetConvolutionMathType",
    "x_tensor", "w_filter", "cudnnGetConvolution2dForwardOutputDim",
    "y_tensor", "workspace_memory", "x_memory", "w_memory", "y_memory" }

\* C4: in the convolution-forward function a failed set-up step makes the
\* function return without invoking cudnnConvolutionForward, without
\* inserting a counter and without calling SetItemsProcessed.
C4_SetupFailureReturns ==
  (bench = "CONV_FWD" /\ failed \cap ConvFwdSetupSteps # {}) =>
    /\ pc = "done"
    /\ "cudnnConvolutionForward" \notin invoked
    /\ DOMAIN counters = {}
    /\ items = << >>

C4_Witness ==
  /\ bench = "CONV_FWD" /\ pc = "done"
  /\ "y_memory" \in failed
  /\ "cudnnGetConvolutionForwardAlgorithm" \in invoked

PoolingBuffers == { "x_memory", "dx_memory", "y_memory", "dy_memory" }

\* C5: in the pooling-backward function the timed block is reached, and
\* cudnnPoolingBackward invoked, only if the four device buffers x, dx, y and
\* dy were all allocated validly.
C5_AllBuffersValid ==
  ( /\ bench = "POOLING_BWD"
    /\ pc \in {"loop", "report"} \/ "cudnnPoolingBackward" \in invoked ) =>
    \A m \in PoolingBuffers : m \in DOMAIN valid /\ valid[m]

\* C6: in every benchmark function, when has_cuda is false SkipWithError is
\* called exactly once and the function returns before any descriptor,
\* device memory, vendor call or counter.
C6_NoCudaReturnsAtOnce ==
  (~has_cuda /\ pc # "start") =>
    /\ pc = "done"
    /\ skips = 1
    /\ invoked = {}
    /\ failed = {}
    /\ DOMAIN valid = {}
    /\ DOMAIN callArgs = {}
    /\ deferred = << >> /\ released = << >>
    /\ DOMAIN counters = {}
    /\ items = << >>
    /\ iterations = 0

C6_Witness ==
  /\ ~has_cuda /\ pc = "done" /\ skips = 1
  /\ bench = "CONV_BWD_BIAS"

ConvShapeKeys ==
  { "filter_height", "filter_width", "pad_height", "pad_width",
    "stride_height", "stride_width" }

\* C7: for the same argument vector the convolution-forward function
\* configures the convolution descriptor, and records the filter, padding
\* and stride counters, exactly as the fused convolution-bias-activation
\* function does.
C7_SameDecoding ==
  bench = "CONV_FWD" =>
    /\ "cudnnSetConvolution2dDescriptor" \in DOMAIN callArgs =>
         callArgs["cudnnSetConvolution2dDescriptor"] =
           StepArgs("CONV_BIAS_ACTIVATION_FWD", "cudnnSetConvolution2dDescriptor")
    /\ "filter_height" \in DOMAIN counters =>
         \A k \in ConvShapeKeys :
           counters[k] = ConvShapeCounters("CONV_BIAS_ACTIVATION_FWD")[k]

GemmFamily == { "IMPLICIT_GEMM", "IMPLICIT_PRECOMP_GEMM", "GEMM" }

\* filter_width * filter_height * out_w * out_h * channels * out_c * batch_size
ForwardProduct ==
  LET p == ConvFwdArgs(args)
  IN  p.filter_width * p.filter_height * out.w * out.h * p.channels * out.c
        * p.batch_size

\* C8 as stated: in the convolution-forward function, for the algorithms of
\* the GEMM family the predicted_flops_count counter equals filter_width *
\* filter_height * out_w * out_h * channels * out_c * batch_size, whatever
\* the group.
C8_FlopsIsProduct ==
  ( /\ bench = "CONV_FWD" /\ alg \in GemmFamily
    /\ "predicted_flops_count" \in DOMAIN counters ) =>
    counters["predicted_flops_count"] = Exact(ForwardProduct)

\* C8 amended: for the algorithms of the GEMM family the predicted_flops_count
\* counter equals that product divided by group (argument 13, taken as 1 when
\* it is 0).
C8_FlopsIsProductPerGroup ==
  ( /\ bench = "CONV_FWD" /\ alg \in GemmFamily
    /\ "predicted_flops_count" \in DOMAIN counters ) =>
    counters["predicted_flops_count"] =
      Flops(ForwardProduct, 0, 1, IF args[13] = 0 THEN 1 ELSE args[13])

C8_Witness ==
  /\ bench = "CONV_FWD" /\ alg = "IMPLICIT_PRECOMP_GEMM" /\ pc = "done"
  /\ args[13] = 2
  /\ "predicted_flops_count" \in DOMAIN counters
  /\ counters["predicted_flops_count"].den = 1
  /\ counters["predicted_flops_count"].num * 2 = ForwardProduct

\* C9: in the convolution-backward-data function, for ALGO_0 and ALGO_1
\* compute_flops returns 2 * K * C * R * S * N * P * Q, as the comment on that
\* case says.
C9_TwiceProduct ==
  ( /\ bench = "CONV_BWD_DATA" /\ alg \in {"ALGO_0", "ALGO_1"}
    /\ "predicted_flops_count" \in DOMAIN counters ) =>
    LET p == BwdDataArgs(args)
    IN  compute_flops(bench, alg) =
          Exact(2 * p.num_filters * p.channels * p.filter_height
                  * p.filter_width * p.batch_size * out.h * out.w)

\* C10: a run of the matrix-multiplication function that reaches the end of
\* the function reports predicted_flops_count = 2 * M * N * K and calls
\* SetItemsProcessed once, with iterations * M * N * K.
C10_GemmFlopsAndItems ==
  (bench = "GEMM_FWD" /\ pc = "done" /\ iterations > 0) =>
    /\ "predicted_flops_count" \in DOMAIN counters
    /\ counters["predicted_flops_count"] = Exact(2 * args[0] * args[1] * args[2])
    /\ items = << iterations * args[0] * args[1] * args[2] >>

C10_Witness ==
  /\ bench = "GEMM_FWD" /\ pc = "done"
  /\ iterations = 2 /\ args[0] = 2 /\ args[1] = 1 /\ args[2] = 2
  /\ items = << 8 >>
  /\ counters["predicted_flops_count"] = Exact(8)

\* C11: in the matrix-multiplication function the transposition flags and
\* leading dimensions recorded as the counters transA, transB, lda and ldb
\* are the ones passed to the timed vendor call, for every element type,
\* half precision included.
C11_CountersMatchCall ==
  (bench = "GEMM_FWD" /\ TimedCall(bench) \in DOMAIN callArgs) =>
    LET c == callArgs[TimedCall(bench)]
    IN  /\ (counters["transA"] = 0) <=> (c.transa = "N")
        /\ (counters["transB"] = 0) <=> (c.transb = "N")
        /\ counters["lda"] = c.lda
        /\ counters["ldb"] = c.ldb

\* The position of the workspace-size statement in a function's set-up.
WorkspaceIp(b) == CHOOSE i \in 1..Len(Setup(b)) : Setup(b)[i].kind = "workspace"

WorkspaceQueryOf(b) == Setup(b)[WorkspaceIp(b)].name

PastWorkspace ==
  bench \in ConvBenches /\ pc # "start" /\ ip > WorkspaceIp(bench)

WorkspaceBytesDecided ==
  PastWorkspace =>
    LET q == WorkspaceQueryOf(bench)
    IN  /\ T = "int8_t" => q \notin invoked
        /\ IF T = "int8_t" \/ q \in failed
           THEN workspace_bytes = 1073741824
           ELSE q \in invoked /\ workspace_bytes \in VendorWorkspaceSizes
        /\ "workspace_bytes" \in DOMAIN counters =>
             counters["workspace_bytes"] = workspace_bytes

WorkspaceStepNeverSkips ==
  (InSetup("workspace") /\ ip' = ip + 1) => (skips' = skips /\ pc' = "setup")

\* C12: in the convolution-forward, fused and backward-data functions
\* workspace_bytes is exactly 1073741824 when T is int8_t (the vendor query
\* is not called) or when the query returns an error, and otherwise the size
\* the vendor query reported; a failed query never skips the run.
C12_WorkspaceBytes ==
  [] WorkspaceBytesDecided /\ [][WorkspaceStepNeverSkips]_vars

C12_Witness ==
  /\ bench = "CONV_BWD_DATA" /\ pc = "done" /\ skips = 0
  /\ WorkspaceQueryOf(bench) \in failed
  /\ counters["workspace_bytes"] = 1073741824

AdvisedResultKeys == { "advised_time", "advised_memory", "advised_determinism" }

\* C13: in the convolution-forward function, when
\* cudnnFindConvolutionForwardAlgorithm returns an error the run is marked
\* skipped and none of advised_time, advised_memory and advised_determinism
\* is recorded.
C13_FailedSearchRecordsNothing ==
  (bench = "CONV_FWD" /\ FindCall(bench) \in failed) =>
    /\ skips > 0
    /\ AdvisedResultKeys \cap DOMAIN counters = {}

\* C14: the fused convolution-bias-activation function selects the math type
\* as the convolution-forward function does: the math type reported in the
\* math_type counter is tensor-op math if T is half and otherwise the one the
\* template parameter requests, and the run is skipped for lack of tensor
\* cores exactly when (T is half or tensor-op math is requested) and the
\* device has no tensor cores.
C14_FusedMathType ==
  (bench = "CONV_BIAS_ACTIVATION_FWD" /\ has_cuda /\ pc \notin {"start", "math"}) =>
    LET wanted == IF T = "__half" THEN "TENSOR_OP" ELSE math_type0
        lacking == (T = "__half" \/ math_type0 = "TENSOR_OP") /\ ~tensorCore
    IN  /\ lacking <=> (pc = "done" /\ skips = 1 /\ invoked = {})
        /\ ~lacking => math_type = wanted
        /\ "math_type" \in DOMAIN counters =>
             counters["math_type"] = wanted

\* How many times a clean-up has run.
Released(name) == Cardinality({ i \in 1..Len(released) : released[i] = name })

Created(name) == name \in invoked /\ name \notin failed

\* C15: in the convolution-forward function a convolution descriptor that
\* was created successfully has been destroyed exactly once when the
\* function has returned, on every path.
C15_DescriptorDestroyedOnce ==
  ( /\ bench = "CONV_FWD" /\ pc \in {"done", "caught"}
    /\ Created("cudnnCreateConvolutionDescriptor") ) =>
    Released("cudnnDestroyConvolutionDescriptor") = 1

\* The descriptor each of the three functions creates itself, as the
\* vendor call that creates it and the one that destroys it.
OwnDescriptor(b) ==
  CASE b = "ACTIVATION_BWD" ->
         [ create |-> "cudnnCreateActivationDescriptor",
           destroy |-> "cudnnDestroyActivationDescriptor" ]
    [] b = "BATCHNORM_FWD" ->
         [ create |-> "cudnnCreateTensorDescriptor",
           destroy |-> "cudnnDestroyTensorDescriptor" ]
    [] OTHER ->
         [ create |-> "cudnnCreateDropoutDescriptor",
           destroy |-> "cudnnDestroyDropoutDescriptor" ]

\* C16: on the success path the activation descriptor of the
\* activation-backward function, the scale/bias tensor descriptor of the
\* batch-normalisation function and the dropout descriptor of the dropout
\* function have been destroyed when the function has returned.
C16_OwnDescriptorsDestroyed ==
  ( /\ bench \in {"ACTIVATION_BWD", "BATCHNORM_FWD", "DROPOUT_FWD"}
    /\ pc = "done" /\ skips = 0 /\ failed = {}
    /\ Created(OwnDescriptor(bench).create) ) =>
    Released(OwnDescriptor(bench).destroy) >= 1

GemmBuffers == { "d_a", "d_b", "d_c" }

MallocOf(buf) == "cudaMalloc(" \o buf \o ")"

FreeOf(buf) == "cudaFree(" \o buf \o ")"

\* C17: in the matrix-multiplication function each of the device buffers
\* d_a, d_b and d_c that was allocated successfully has been freed exactly
\* once when the function has returned, on every path, none is freed while
\* the function still runs, and a buffer whose allocation failed or was
\* never attempted is never freed.
C17_BuffersFreedOnce ==
  bench = "GEMM_FWD" =>
    \A buf \in GemmBuffers :
      IF pc \in {"done", "caught"} /\ Created(MallocOf(buf))
      THEN Released(FreeOf(buf)) = 1
      ELSE Released(FreeOf(buf)) = 0

C17_Witness ==
  /\ bench = "GEMM_FWD" /\ pc = "done"
  /\ Created(MallocOf("d_a")) /\ Created(MallocOf("d_b"))
  /\ MallocOf("d_c") \in failed
  /\ released = << FreeOf("d_b"), FreeOf("d_a") >>

\* C18: no benchmark entry point lets an exception escape: an exception
\* thrown in a primitive's implementation is caught at its entry point and
\* reported with exactly one SkipWithError, for every primitive.
C18_NoExceptionEscapes ==
  /\ pc # "escaped"
  /\ pc = "caught" => skips = 1

IsPauseOrResume(e) == e \in {"PauseTiming", "ResumeTiming"}

\* C19: in the scale-tensor loop PauseTiming and ResumeTiming strictly
\* alternate, starting with PauseTiming, and whenever control has left the
\* loop, normally or through a break, every PauseTiming has been matched by a
\* ResumeTiming, so that timing is not left paused.
C19_TimingResumedAtExit ==
  bench = "SCALE_TENSOR" =>
    LET calls == SelectSeq(events, IsPauseOrResume)
    IN  /\ \A i \in 1..Len(calls) :
             calls[i] = (IF i % 2 = 1 THEN "PauseTiming" ELSE "ResumeTiming")
        /\ pc \in {"report", "done"} => ~paused

\* C20: in the convolution-forward and backward-data functions, whenever the
\* algorithm the vendor advises is the benchmarked one,
\* predicted_advised_flops_count equals predicted_flops_count, whatever the
\* group count.
C20_AdvisedFlopsAgree ==
  ( /\ bench \in {"CONV_FWD", "CONV_BWD_DATA"}
    /\ advised = alg
    /\ "predicted_advised_flops_count" \in DOMAIN counters ) =>
    counters["predicted_advised_flops_count"] = counters["predicted_flops_count"]

\* The steps of the dropout function in the order the claim gives them.
DropoutSteps ==
  << "cudnnCreateDropoutDescriptor", "cudnnDropoutGetStatesSize",
     "states_memory", "cudnnSetDropoutDescriptor",
     "cudnnDropoutGetReserveSpaceSize", "reserve_space_memory",
     "x_memory", "y_memory", "cudnnDropoutForward" >>

Argument(name, field, value) ==
  name \in DOMAIN callArgs => callArgs[name][field] = value

\* C21: in the dropout function the steps occur in the order create
\* descriptor, states size, states buffer of exactly that size, set descriptor
\* with that buffer, reserve-space size from the x descriptor, reserve buffer
\* of exactly that size, x and y buffers, cudnnDropoutForward with the reserve
\* buffer and its size; a step runs only if every earlier one succeeded.
C21_DropoutOrder ==
  bench = "DROPOUT_FWD" =>
    /\ \A j \in 2..Len(DropoutSteps) :
         DropoutSteps[j] \in invoked => Created(DropoutSteps[j - 1])
    /\ \A name \in { "states_memory", "cudnnSetDropoutDescriptor" } :
         name \in invoked =>
           "cudnnDropoutGetStatesSize" \in DOMAIN callArgs
    /\ Argument("states_memory", "bytes",
                QueriedSize("cudnnDropoutGetStatesSize"))
    /\ Argument("cudnnSetDropoutDescriptor", "states", "states_memory")
    /\ Argument("cudnnSetDropoutDescriptor", "stateSizeInBytes",
                QueriedSize("cudnnDropoutGetStatesSize"))
    /\ Argument("cudnnDropoutGetReserveSpaceSize", "of", "x_tensor")
    /\ Argument("reserve_space_memory", "bytes",
                QueriedSize("cudnnDropoutGetReserveSpaceSize"))
    /\ Argument("cudnnDropoutForward", "reserveSpace", "reserve_space_memory")
    /\ Argument("cudnnDropoutForward", "reserveSpaceSizeInBytes",
                QueriedSize("cudnnDropoutGetReserveSpaceSize"))
    /\ "cudnnDropoutForward" \in invoked =>
         /\ "cudnnDropoutForward" \in DOMAIN callArgs
         /\ \A j \in 1..(Len(DropoutSteps) - 1) : Created(DropoutSteps[j])

C21_Witness ==
  /\ bench = "DROPOUT_FWD" /\ pc = "done" /\ skips = 0
  /\ "cudnnDropoutForward" \in invoked
  /\ QueriedSize("cudnnDropoutGetStatesSize") = 16
  /\ callArgs["cudnnDropoutForward"].reserveSpaceSizeInBytes = 32

\* A height or width argument with -1 replaced by 1.
OneIfUnset(v) == IF v = -1 THEN 1 ELSE v

Counter(key, value) == key \in DOMAIN counters => counters[key] = value

\* C22: in the activation-backward function a height or width argument of -1
\* is replaced by 1 before any use, the reported output shape equals the
\* normalized input shape, and predicted_flops_count is 0 for IDENTITY,
\* n*c*h*w for SIGMOID, RELU, TANH, CLIPPED_RELU and ELU, and -1 for any
\* other mode.
C22_ActivationShapeAndFlops ==
  bench = "ACTIVATION_BWD" =>
    LET n == args[0]
        c == args[1]
        h == OneIfUnset(args[2])
        w == OneIfUnset(args[3])
    IN  /\ "x_tensor" \in DOMAIN callArgs =>
             callArgs["x_tensor"] = [ n |-> n, c |-> c, h |-> h, w |-> w ]
        /\ Counter("input_batch_size", n) /\ Counter("input_channels", c)
        /\ Counter("input_height", h) /\ Counter("input_width", w)
        /\ Counter("input_size", n * c * h * w)
        /\ Counter("output_batch_size", n) /\ Counter("output_channels", c)
        /\ Counter("output_height", h) /\ Counter("output_width", w)
        /\ Counter("output_size", n * c * h * w)
        /\ Counter("predicted_flops_count",
             CASE alg = "IDENTITY" -> Exact(0)
               [] alg \in {"SIGMOID", "RELU", "TANH", "CLIPPED_RELU", "ELU"} ->
                    Exact(n * c * h * w)
               [] OTHER -> Exact(-1))
        /\ pc = "done" /\ skips = 0 /\ has_cuda =>
             "predicted_flops_count" \in DOMAIN counters

C22_Witness ==
  /\ bench = "ACTIVATION_BWD" /\ pc = "done" /\ alg = "ELU"
  /\ args[0] = 2 /\ args[2] = -1 /\ args[3] = 3
  /\ "predicted_flops_count" \in DOMAIN counters
  /\ counters["predicted_flops_count"] = Exact(12)
  /\ counters["output_height"] = 1

====
